---- MODULE Spec2Model ----
(***************************************************************************)
(* Model of src/src/main.rs: the watch loop (watch, spawn_watch_shell and  *)
(* the Watch arm of main) and the concurrent batch verification (the       *)
(* MyVerify arm of main).                                                  *)
(*                                                                         *)
(* The catalog is the sequence 1..N of exercises. Exercise e has name e,   *)
(* path e and hint e (the catalog's names and paths are pairwise           *)
(* distinct). The file of exercise e is abstracted to the two things the   *)
(* program reads from it itself: done[e], the value of e.looks_done().     *)
(* verify and run live in other modules of the crate; what a call returns  *)
(* (Ok or Err) is an input of the step that receives it.                   *)
(***************************************************************************)
EXTENDS Integers, Sequences, FiniteSets, TLC

\* Largest catalog of the model.
MaxN == 2
\* Capacity of the watcher's event channel in the model.
MaxQueue == 1
\* Largest catalog given to the sequential verify command.
MaxSeq == 3

VARIABLES
    N,            \* exercises.len()
    done,         \* done[e]: e.looks_done() on the current file contents
    pc,           \* position of the thread running main / watch
    result,       \* value returned by watch: "none" while it runs
    exitCode,     \* process exit status, -1 while the process runs
    numDone,      \* num_done of the initial scan
    scanIdx,      \* next exercise of the initial scan's for loop
    scanLog,      \* verify calls of the initial scan: <<exercise, ok>>
    hint,         \* *failed_exercise_hint: 0 is None, e is Some(hint of e)
    quit,         \* should_quit
    shellUp,      \* the shell thread has been spawned
    queue,        \* events sent by the watcher, not yet received
    disconnected, \* the sending side of the channel is gone
    evPath,       \* filepath of the event being handled
    evExists,     \* b.exists() as read for the event being handled
    itFound,      \* pending_exercises: the find(...) part is consumed
    itPos,        \* pending_exercises: position of the filter(...) part
    cur,          \* exercise whose verification is in flight (0: none)
    visited,      \* exercises verified so far in the current pass
    iterEnd,      \* what this loop iteration did, once it reaches the quit
                  \* check: "passed", "failed" (a pass), "ignored" (an
                  \* event the loop does not act on), "timeout",
                  \* "watch_error" (printed); "none" before that
    lock,         \* who holds the mutex of the hint cell: "free", "sched"
                  \* (the thread running watch) or "shell"
    spc,          \* position of the shell thread: "read" (in read_line),
                  \* "want" (calling lock()), "holding" (printing the hint)
    runOk,        \* batch: runOk[e]: run(e) returns Ok
    bpc,          \* batch: position of the coordinator (main)
    spawnIdx,     \* batch: next exercise to spawn a task for
    joinIdx,      \* batch: next task to await
    upc,          \* batch: position of each task
    rights,       \* batch: the `rights` counter
    list,         \* batch: exercise_check_list.exercises
    succ,         \* batch: statistics.total_succeeds
    fail,         \* batch: statistics.total_failures
    total,        \* batch: statistics.total_exercations
    report,       \* batch: the document written to check_result.json
    names,        \* names[e]: Exercise::name of exercise e
    lpc,          \* targeted command: position of main
    lkCmd,        \* targeted command: "run", "reset" or "hint"
    lkArg,        \* targeted command: the name given (NextToken: `next`)
    lkFound,      \* targeted command: what find_exercise returned (0: none)
    lkActed,      \* targeted command: the exercise run, reset or shown
    lkOut,        \* targeted command: what was printed
    lkExit,       \* targeted command: exit status, -1 while it runs
    vpc,          \* verify command: position of main
    vIdx,         \* verify command: next exercise of the for loop
    vLog,         \* verify command: verify calls made: <<exercise, ok>>
    vExit         \* verify command: exit status, -1 while it runs

watchVars == <<pc, result, exitCode, numDone, scanIdx, scanLog, hint, quit,
               shellUp, queue, disconnected, evPath, evExists,
               itFound, itPos, cur, visited, iterEnd, lock, spc>>
batchVars == <<runOk, bpc, spawnIdx, joinIdx, upc, rights, list, succ, fail, total,
               report>>
lookupVars == <<names, lpc, lkCmd, lkArg, lkFound, lkActed, lkOut, lkExit>>
seqVars == <<vpc, vIdx, vLog, vExit>>
vars == <<N, done, watchVars, batchVars, lookupVars, seqVars>>

Catalog == 1..N

\* Exercise::path of exercise e, and the other paths an event can carry:
\* a .rs file that belongs to no exercise, and a file with another extension.
ExPath(e) == e
OtherRs == MaxN + 1
NotRs == MaxN + 2
Paths == (1..MaxN) \cup {OtherRs, NotRs}

\* b.extension() == Some(OsStr::new("rs"))
HasRsExtension(p) == p # NotRs

\* filepath.ends_with(&e.path)
EndsWith(p, e) == p = ExPath(e)

\* to_owned_hint
HintOf(e) == e

\* DebouncedEvent: the three kinds the loop acts on, and the watcher's error
\* event, one of the kinds it does not act on. A write carries the path of
\* an exercise's file, a create that of a .rs file of no exercise, a chmod
\* that of a file with another extension.
EventKinds == {"Create", "Write", "Chmod", "Error"}
Events ==
    {[kind |-> "Write", path |-> ExPath(e)] : e \in 1..MaxN}
        \cup {[kind |-> "Create", path |-> OtherRs],
              [kind |-> "Chmod", path |-> NotRs],
              [kind |-> "Error", path |-> OtherRs]}

Min(S) == CHOOSE x \in S : \A y \in S : x <= y

\* FindByPath that passes over an exercise that looks done
FindByPathNotDone(p) ==
    LET S == {e \in Catalog : EndsWith(p, e) /\ ~done[e]}
    IN  IF S = {} THEN 0 ELSE Min(S)

\* exercises.iter().find(|e| filepath.ends_with(&e.path)); 0 when None
FindByPath(p) ==
    LET S == {e \in Catalog : EndsWith(p, e)}
    IN  IF S = {} THEN 0 ELSE Min(S)

\* NextPending whose filter lacks !filepath.ends_with(&e.path)
NextPendingNoDedup(from, p) ==
    LET S == {e \in Catalog : e > from /\ ~done[e]}
    IN  IF S = {} THEN 0 ELSE Min(S)

\* next() of exercises.iter().filter(|e| !e.looks_done() &&
\* !filepath.ends_with(&e.path)) after position `from`; 0 when exhausted.
\* The filter is lazy: looks_done() is read when the iterator gets there.
NextPending(from, p) ==
    LET S == {e \in Catalog : e > from /\ ~done[e] /\ ~EndsWith(p, e)}
    IN  IF S = {} THEN 0 ELSE Min(S)

\* CountDone whose filter accepts every exercise
CountAll == Cardinality(Catalog)

\* CountDone that reuses the initial scan's num_done
CountDoneCached == numDone

\* exercises.iter().filter(|e| e.looks_done()).count()
CountDone == Cardinality({e \in Catalog : done[e]})

WatchIdle ==
    /\ result = "none" /\ exitCode = -1
    /\ numDone = 0 /\ scanIdx = 1 /\ scanLog = <<>>
    /\ hint = 0 /\ quit = FALSE /\ shellUp = FALSE
    /\ queue = <<>> /\ disconnected = FALSE
    /\ evPath = 0 /\ evExists = TRUE /\ itFound = FALSE /\ itPos = 0 /\ cur = 0
    /\ visited = <<>> /\ iterEnd = "none"
    /\ lock = "free" /\ spc = "read"

\* The batch state before the MyVerify arm has run.
BatchFresh ==
    /\ spawnIdx = 1 /\ joinIdx = 1
    /\ upc = [e \in Catalog |-> "unspawned"]
    /\ rights = 0 /\ list = <<>> /\ succ = 0 /\ fail = 0 /\ total = 0
    /\ report = <<>>

BatchIdle ==
    /\ bpc = "idle"
    /\ BatchFresh
    /\ runOk = [e \in Catalog |-> TRUE]

\* The literal `next` (line 439), and the names a command can give: those
\* of the model's catalogs and one that no exercise has.
NextToken == 0
Names == 1..MaxN
NoSuchName == MaxN + 1

\* The state of a targeted command that is not being run.
LookupIdle ==
    /\ names = [e \in Catalog |-> e]
    /\ lpc = "idle" /\ lkCmd = "none" /\ lkArg = NextToken
    /\ lkFound = 0 /\ lkActed = 0 /\ lkOut = "none" /\ lkExit = -1

\* The state of a verify command that is not being run.
SeqIdle ==
    /\ vpc = "idle" /\ vIdx = 1 /\ vLog = <<>> /\ vExit = -1

Files ==
    /\ N \in 0..MaxN
    /\ done \in [Catalog -> BOOLEAN]

\* `rustlings watch`: main has read the catalog and calls watch.
Init ==
    /\ Files
    /\ WatchIdle
    /\ BatchIdle
    /\ LookupIdle
    /\ SeqIdle
    /\ pc = "init"

\* ---------------------------------------------------------------- watch

\* Lines 474-484: the channel and the watcher are created and the directory
\* is watched; either call may fail, and `?` returns the error.
WatchInit ==
    /\ pc = "init"
    /\ \E ok \in BOOLEAN :
         IF ok
         THEN /\ pc' = IF N = 0 THEN "scan_end" ELSE "scan"
              /\ result' = result
         ELSE /\ pc' = "returned"
              /\ result' = "Err"
    /\ UNCHANGED <<N, done, exitCode, numDone, scanIdx, scanLog, hint,
                   quit, shellUp, queue, disconnected, evPath, evExists, itFound, itPos, cur, visited, iterEnd, lock, spc, batchVars, lookupVars, seqVars>>

\* ScanVerify whose Err arm does not store the hint
ScanVerifyNoHint ==
    /\ pc = "scan"
    /\ \E ok \in BOOLEAN :
         /\ scanLog' = Append(scanLog, <<scanIdx, ok>>)
         /\ IF ok
            THEN /\ numDone' = numDone + 1
                 /\ scanIdx' = scanIdx + 1
                 /\ pc' = IF scanIdx = N THEN "scan_end" ELSE "scan"
            ELSE /\ pc' = "scan_end"
                 /\ UNCHANGED <<numDone, scanIdx>>
    /\ UNCHANGED <<N, done, result, exitCode, hint, quit, shellUp,
                   queue, disconnected, evPath, evExists, itFound, itPos,
                   cur, visited, iterEnd, lock, spc, batchVars, lookupVars, seqVars>>

\* ScanVerify without the break of line 507
ScanVerifyNoBreak ==
    /\ pc = "scan"
    /\ \E ok \in BOOLEAN :
         /\ scanLog' = Append(scanLog, <<scanIdx, ok>>)
         /\ numDone' = IF ok THEN numDone + 1 ELSE numDone
         /\ hint' = IF ok THEN hint ELSE HintOf(scanIdx)
    /\ scanIdx' = scanIdx + 1
    /\ pc' = IF scanIdx = N THEN "scan_end" ELSE "scan"
    /\ UNCHANGED <<N, done, result, exitCode, quit, shellUp,
                   queue, disconnected, evPath, evExists, itFound, itPos,
                   cur, visited, iterEnd, lock, spc, batchVars, lookupVars, seqVars>>

\* Lines 485-510: one iteration of the initial scan's for loop. verify
\* succeeds: num_done += 1 and the loop goes on; it fails: a fresh hint
\* cell holding the failed exercise's hint is made, and the loop breaks.
ScanVerify ==
    /\ pc = "scan"
    /\ \E ok \in BOOLEAN :
         /\ scanLog' = Append(scanLog, <<scanIdx, ok>>)
         /\ IF ok
            THEN /\ numDone' = numDone + 1
                 /\ scanIdx' = scanIdx + 1
                 /\ pc' = IF scanIdx = N THEN "scan_end" ELSE "scan"
                 /\ hint' = hint
            ELSE /\ hint' = HintOf(scanIdx)
                 /\ pc' = "scan_end"
                 /\ UNCHANGED <<numDone, scanIdx>>
    /\ UNCHANGED <<N, done, result, exitCode, quit, shellUp,
                   queue, disconnected, evPath, evExists, itFound, itPos,
                   cur, visited, iterEnd, lock, spc, batchVars, lookupVars, seqVars>>

\* Lines 512-517: after the scan, return Finished when num_done equals the
\* catalog's length, else spawn the shell and enter the loop.
ScanEnd ==
    /\ pc = "scan_end"
    /\ IF numDone = N
       THEN /\ result' = "Finished"
            /\ pc' = "returned"
            /\ shellUp' = shellUp
       ELSE /\ shellUp' = TRUE
            /\ pc' = "wait"
            /\ result' = result
    /\ UNCHANGED <<N, done, exitCode, numDone, scanIdx, scanLog, hint,
                   quit, queue, disconnected, evPath, evExists,
                   itFound, itPos, cur, visited, iterEnd, lock, spc, batchVars, lookupVars, seqVars>>

\* The match arm of line 521 and the first operand of the && of line 522:
\* b.exists() is evaluated only for an event that gets past both.
Examined(ev) ==
    /\ ev.kind \in {"Create", "Chmod", "Write"}
    /\ HasRsExtension(ev.path)

\* Qualifies without the b.exists() operand of line 522
QualifiesNoExists(ev, exists) == Examined(ev)

\* Lines 521-522: the events the loop acts on.
Qualifies(ev, exists) ==
    /\ Examined(ev)
    /\ exists

\* RecvEvent that takes every queued event at once and handles the first
RecvEventDrain ==
    /\ pc = "wait"
    /\ queue # <<>>
    /\ queue' = <<>>
    /\ \E exists \in (IF Examined(Head(queue)) THEN BOOLEAN ELSE {TRUE}) :
         LET ev == Head(queue) IN
         /\ evExists' = exists
         /\ IF Qualifies(ev, exists)
            THEN /\ evPath' = ev.path
                 /\ pc' = IF CountDone = N THEN "returned" ELSE "pass"
                 /\ result' = IF CountDone = N THEN "Finished" ELSE result
                 /\ iterEnd' = iterEnd
            ELSE /\ pc' = "check_quit"
                 /\ iterEnd' = "ignored"
                 /\ UNCHANGED <<evPath, result>>
    /\ UNCHANGED <<N, done, exitCode, numDone, scanIdx, scanLog, hint,
                   quit, shellUp, disconnected, itFound,
                   itPos, cur, visited, lock, spc, batchVars, lookupVars, seqVars>>

\* Lines 519-539: recv_timeout returns an event. A create, chmod or write
\* event of an existing .rs file counts the done exercises and returns
\* Finished when all are done, else starts a pass over pending_exercises;
\* every other event is ignored. b.exists() is read when the event is handled.
RecvEvent ==
    /\ pc = "wait"
    /\ queue # <<>>
    /\ queue' = Tail(queue)
    /\ \E exists \in (IF Examined(Head(queue)) THEN BOOLEAN ELSE {TRUE}) :
         LET ev == Head(queue) IN
         /\ evExists' = exists
         /\ IF Qualifies(ev, exists)
            THEN /\ evPath' = ev.path
                 /\ IF CountDone = N
                    THEN /\ result' = "Finished"
                         /\ pc' = "returned"
                         /\ iterEnd' = iterEnd
                    ELSE /\ pc' = "pass"
                         /\ result' = result
                         /\ iterEnd' = iterEnd
            ELSE /\ pc' = "check_quit"
                 /\ iterEnd' = "ignored"
                 /\ UNCHANGED <<evPath, result>>
    /\ UNCHANGED <<N, done, exitCode, numDone, scanIdx, scanLog, hint,
                   quit, shellUp, disconnected, itFound,
                   itPos, cur, visited, lock, spc, batchVars, lookupVars, seqVars>>

\* Lines 574-576: recv_timeout times out.
RecvTimeout ==
    /\ pc = "wait"
    /\ queue = <<>>
    /\ ~disconnected
    /\ pc' = "check_quit"
    /\ iterEnd' = "timeout"
    /\ UNCHANGED <<N, done, result, exitCode, numDone, scanIdx, scanLog,
                   hint, quit, shellUp, queue, disconnected,
                   evPath, evExists, itFound, itPos, cur, visited, lock, spc, batchVars, lookupVars, seqVars>>

\* Line 577: recv_timeout returns Disconnected; the error is printed.
RecvDisconnected ==
    /\ pc = "wait"
    /\ queue = <<>>
    /\ disconnected
    /\ iterEnd' = "watch_error"
    /\ pc' = "check_quit"
    /\ UNCHANGED <<N, done, result, exitCode, numDone, scanIdx, scanLog,
                   hint, quit, shellUp, queue, disconnected, evPath, evExists,
                   itFound, itPos, cur, visited, lock, spc, batchVars, lookupVars, seqVars>>

\* next() of pending_exercises (lines 524-532): the exercise found by path
\* first, then the filtered catalog; 0 when the iterator is exhausted.
PendingNext ==
    IF ~itFound /\ FindByPath(evPath) # 0
    THEN FindByPath(evPath)
    ELSE NextPending(itPos, evPath)

\* Lines 541-543: the for loop of a pass takes the next pending exercise and
\* starts its verification, or ends when there is none.
PassNext ==
    /\ pc = "pass"
    /\ itFound' = TRUE
    /\ LET x == PendingNext IN
       /\ itPos' = IF ~itFound /\ FindByPath(evPath) # 0 THEN itPos
                   ELSE IF x = 0 THEN N ELSE x
       /\ IF x = 0
          THEN /\ pc' = "check_quit"
               /\ iterEnd' = "passed"
               /\ UNCHANGED <<cur, visited>>
          ELSE /\ pc' = "verify"
               /\ cur' = x
               /\ visited' = Append(visited, x)
               /\ iterEnd' = iterEnd
    /\ UNCHANGED <<N, done, result, exitCode, numDone, scanIdx, scanLog,
                   hint, quit, shellUp, queue, disconnected,
                   evPath, evExists, lock, spc, batchVars, lookupVars, seqVars>>

\* VerifyDone without the break of line 566
VerifyDoneNoBreak ==
    /\ pc = "verify"
    /\ cur' = 0
    /\ pc' = "pass"
    /\ \E ok \in BOOLEAN :
         IF ok
         THEN UNCHANGED <<hint, iterEnd>>
         ELSE /\ hint' = HintOf(cur)
              /\ iterEnd' = "failed"
    /\ UNCHANGED <<N, done, result, exitCode, numDone, scanIdx, scanLog,
                   quit, shellUp, queue, disconnected, evPath, evExists, itFound, itPos, visited, lock, spc, batchVars, lookupVars, seqVars>>

\* Lines 543-568: verify returns. Ok: the loop goes on; Err: the hint cell
\* is locked and set to the failed exercise's hint, and the loop breaks.
VerifyDone ==
    /\ pc = "verify"
    /\ cur' = 0
    /\ \E ok \in BOOLEAN :
         IF ok
         THEN /\ pc' = "pass"
              /\ UNCHANGED <<hint, iterEnd>>
         ELSE /\ hint' = HintOf(cur)
              /\ pc' = "check_quit"
              /\ iterEnd' = "failed"
    /\ UNCHANGED <<N, done, result, exitCode, numDone, scanIdx, scanLog,
                   quit, shellUp, queue, disconnected, evPath, evExists, itFound, itPos, visited, lock, spc, batchVars, lookupVars, seqVars>>

\* Lines 579-583: the end of a loop iteration: return Unfinished when
\* should_quit is set, else loop (the iteration's locals are dropped).
CheckQuit ==
    /\ pc = "check_quit"
    /\ IF quit
       THEN /\ result' = "Unfinished"
            /\ pc' = "returned"
       ELSE /\ pc' = "wait"
            /\ result' = result
    /\ evPath' = 0 /\ evExists' = TRUE /\ itFound' = FALSE /\ itPos' = 0 /\ visited' = <<>>
    /\ iterEnd' = "none"
    /\ UNCHANGED <<N, done, exitCode, numDone, scanIdx, scanLog, hint,
                   quit, shellUp, queue, disconnected, cur, lock, spc, batchVars, lookupVars, seqVars>>

\* Lines 376-396: main's match on what watch returned: an error exits
\* with status 1, Finished and Unfinished end main normally.
MainWatch ==
    /\ pc = "returned"
    /\ pc' = "exited"
    /\ exitCode' = IF result = "Err" THEN 1 ELSE 0
    /\ UNCHANGED <<N, done, result, numDone, scanIdx, scanLog, hint,
                   quit, shellUp, queue, disconnected, evPath, evExists, itFound, itPos, cur, visited, iterEnd, lock, spc, batchVars, lookupVars, seqVars>>

\* The watch call is running and the watcher exists.
Watching ==
    pc \in {"scan", "scan_end", "wait", "pass", "verify", "err_lock", "err_set",
            "check_quit"}

\* What a `hint` command prints now (0: nothing): line 412-414.
HintPrinted == hint

\* ShellHint that takes the hint out of the cell it prints
ShellHintTakes ==
    /\ shellUp /\ pc # "exited"
    /\ hint' = 0
    /\ UNCHANGED <<N, done, pc, result, exitCode, numDone, scanIdx,
                   scanLog, quit, shellUp, queue, disconnected,
                   evPath, evExists, itFound, itPos, cur, visited, iterEnd,
                   lock, spc, batchVars, lookupVars, seqVars>>

\* Lines 408-414: the shell reads `hint`, locks the hint cell and prints
\* its content; nothing is written.
ShellHint ==
    /\ shellUp /\ pc # "exited"
    /\ UNCHANGED vars

\* Lines 417-419: the shell reads `quit` and stores true in should_quit.
ShellQuit ==
    /\ shellUp /\ pc # "exited"
    /\ quit' = TRUE
    /\ UNCHANGED <<N, done, pc, result, exitCode, numDone, scanIdx,
                   scanLog, hint, shellUp, queue, disconnected,
                   evPath, evExists, itFound, itPos, cur, visited, iterEnd,
                   lock, spc, batchVars, lookupVars, seqVars>>

\* Lines 415-416, 420-433: clear, help, an unknown command or a read error
\* only print.
ShellOther ==
    /\ shellUp /\ pc # "exited"
    /\ UNCHANGED vars

\* The user saves the file of exercise e: what looks_done() (lines 531,
\* 533) reads from it changes.
Edit(e) ==
    /\ Watching
    /\ done' = [done EXCEPT ![e] = ~done[e]]
    /\ UNCHANGED <<N, watchVars, batchVars, lookupVars, seqVars>>

\* The watcher (line 477) sends a debounced event through tx; the channel
\* (line 474) is unbounded, the model keeps at most cap events in it.
Send(ev, cap) ==
    /\ Watching
    /\ ~disconnected
    /\ Len(queue) < cap
    /\ queue' = Append(queue, ev)
    /\ UNCHANGED <<N, done, pc, result, exitCode, numDone, scanIdx,
                   scanLog, hint, quit, shellUp, disconnected,
                   evPath, evExists, itFound, itPos, cur, visited, iterEnd,
                   lock, spc, batchVars, lookupVars, seqVars>>

Notify(ev) == Send(ev, MaxQueue)

\* The watcher's sending side goes away: recv_timeout reports Disconnected
\* once the queued events are received.
Disconnect ==
    /\ Watching
    /\ ~disconnected
    /\ disconnected' = TRUE
    /\ UNCHANGED <<N, done, pc, result, exitCode, numDone, scanIdx,
                   scanLog, hint, quit, shellUp, queue, evPath, evExists, itFound, itPos, cur, visited, iterEnd, lock, spc, batchVars, lookupVars, seqVars>>

Next ==
    \/ WatchInit
    \/ ScanVerify
    \/ ScanEnd
    \/ RecvEvent
    \/ RecvTimeout
    \/ RecvDisconnected
    \/ PassNext
    \/ VerifyDone
    \/ CheckQuit
    \/ MainWatch
    \/ ShellHint
    \/ ShellQuit
    \/ ShellOther
    \/ \E e \in Catalog : Edit(e)
    \/ \E ev \in Events : Notify(ev)
    \/ Disconnect

Spec == Init /\ [][Next]_vars

\* The watch loop with room for one more event in the channel, fed with
\* two events that can be told apart, a write of the first exercise's file
\* and a create of a .rs file of no exercise: several events can arrive
\* while a pass runs. The thread running watch always gets to run.
FifoCap == MaxQueue + 1
FifoEvents ==
    {[kind |-> "Write", path |-> ExPath(1)],
     [kind |-> "Create", path |-> OtherRs]}

FifoStep ==
    \/ WatchInit
    \/ ScanVerify
    \/ ScanEnd
    \/ RecvEvent
    \/ RecvTimeout
    \/ PassNext
    \/ VerifyDone
    \/ CheckQuit
    \/ MainWatch

FifoNext ==
    \/ FifoStep
    \/ ShellQuit
    \/ \E e \in Catalog : Edit(e)
    \/ \E ev \in FifoEvents : Send(ev, FifoCap)

FifoSpec == Init /\ [][FifoNext]_vars /\ WF_vars(FifoStep)

\* ------------------------------------------- watch, one lock step at a time

\* Lines 543-552: verify returns; on Err the arm is entered and the thread
\* is about to call failed_exercise_hint.lock().
LkVerifyDone ==
    /\ pc = "verify"
    /\ \E ok \in BOOLEAN :
         IF ok
         THEN pc' = "pass" /\ cur' = 0
         ELSE pc' = "err_lock" /\ cur' = cur
    /\ UNCHANGED <<N, done, result, exitCode, numDone, scanIdx, scanLog, hint,
                   quit, shellUp, queue, disconnected, evPath, evExists, itFound,
                   itPos, visited, iterEnd, lock, spc, batchVars, lookupVars, seqVars>>

\* Lines 553-554: lock() returns the guard once the mutex is free.
LkErrLock ==
    /\ pc = "err_lock"
    /\ lock = "free"
    /\ lock' = "sched"
    /\ pc' = "err_set"
    /\ UNCHANGED <<N, done, result, exitCode, numDone, scanIdx, scanLog, hint,
                   quit, shellUp, queue, disconnected, evPath, evExists, itFound,
                   itPos, cur, visited, iterEnd, spc, batchVars, lookupVars, seqVars>>

\* LkErrSet whose break leaves the guard alive
LkErrSetKeepsGuard ==
    /\ pc = "err_set"
    /\ lock = "sched"
    /\ hint' = HintOf(cur)
    /\ cur' = 0
    /\ iterEnd' = "failed"
    /\ pc' = "check_quit"
    /\ UNCHANGED <<N, done, result, exitCode, numDone, scanIdx, scanLog,
                   quit, shellUp, queue, disconnected, evPath, evExists, itFound,
                   itPos, visited, lock, spc, batchVars, lookupVars, seqVars>>

\* Lines 555-566: the hint is assigned through the guard, the failure is
\* recorded, and break leaves the arm: the guard is dropped.
LkErrSet ==
    /\ pc = "err_set"
    /\ lock = "sched"
    /\ hint' = HintOf(cur)
    /\ cur' = 0
    /\ iterEnd' = "failed"
    /\ pc' = "check_quit"
    /\ lock' = "free"
    /\ UNCHANGED <<N, done, result, exitCode, numDone, scanIdx, scanLog,
                   quit, shellUp, queue, disconnected, evPath, evExists, itFound,
                   itPos, visited, spc, batchVars, lookupVars, seqVars>>

\* Lines 408-433: read_line returns a command. `hint`: the shell is about
\* to call lock(); `quit`: should_quit is stored; any other input only
\* prints.
LkShellRead ==
    /\ shellUp /\ pc # "exited"
    /\ spc = "read"
    /\ \E cmd \in {"hint", "quit", "other"} :
         /\ spc' = IF cmd = "hint" THEN "want" ELSE spc
         /\ quit' = IF cmd = "quit" THEN TRUE ELSE quit
    /\ UNCHANGED <<N, done, pc, result, exitCode, numDone, scanIdx, scanLog,
                   hint, shellUp, queue, disconnected, evPath, evExists, itFound,
                   itPos, cur, visited, iterEnd, lock, batchVars, lookupVars, seqVars>>

\* Line 412: lock() returns the guard once the mutex is free.
LkShellLock ==
    /\ shellUp /\ pc # "exited"
    /\ spc = "want"
    /\ lock = "free"
    /\ lock' = "shell"
    /\ spc' = "holding"
    /\ UNCHANGED <<N, done, pc, result, exitCode, numDone, scanIdx, scanLog,
                   hint, quit, shellUp, queue, disconnected, evPath, evExists,
                   itFound, itPos, cur, visited, iterEnd, batchVars, lookupVars, seqVars>>

\* Lines 412-414: the hint, if any, is printed and the if let ends: the
\* guard is dropped and the shell goes back to read_line.
LkShellPrint ==
    /\ shellUp /\ pc # "exited"
    /\ spc = "holding"
    /\ lock' = "free"
    /\ spc' = "read"
    /\ UNCHANGED <<N, done, pc, result, exitCode, numDone, scanIdx, scanLog,
                   hint, quit, shellUp, queue, disconnected, evPath, evExists,
                   itFound, itPos, cur, visited, iterEnd, batchVars, lookupVars, seqVars>>

\* The event the lock-step model feeds the loop with: a write of the first
\* exercise's file (what the lock does depends on no path).
LockEvents == {[kind |-> "Write", path |-> ExPath(1)]}

\* The steps of the thread running main and watch.
LockStep ==
    \/ WatchInit
    \/ ScanVerify
    \/ ScanEnd
    \/ RecvEvent
    \/ RecvTimeout
    \/ PassNext
    \/ LkVerifyDone
    \/ LkErrLock
    \/ LkErrSet
    \/ CheckQuit
    \/ MainWatch

LockNext ==
    \/ LockStep
    \/ LkShellRead
    \/ LkShellLock
    \/ LkShellPrint
    \/ \E e \in Catalog : Edit(e)
    \/ \E ev \in LockEvents : Notify(ev)

\* Both threads get to run; a thread blocked in lock() gets the mutex if
\* it is free again and again (the thread running watch runs a whole
\* verification between two of its lock() calls).
LockSpec ==
    /\ Init /\ [][LockNext]_vars
    /\ WF_vars(LockStep)
    /\ WF_vars(LkShellPrint)
    /\ SF_vars(LkShellLock)

\* ---------------------------------------------------------------- batch

\* ExerciseResult { name, result } of exercise e
ExerciseResult(e, r) == [name |-> e, result |-> r]

\* `rustlings myverify`: main has read check.toml (lines 275-276); the
\* watch loop is not running.
BatchInit ==
    /\ N \in 0..MaxN
    /\ done = [e \in Catalog |-> FALSE]
    /\ runOk \in [Catalog -> BOOLEAN]
    /\ WatchIdle
    /\ pc = "idle"
    /\ BatchFresh
    /\ LookupIdle
    /\ SeqIdle
    /\ bpc = "start"

\* Lines 281-294: the counters and the shared check list are created,
\* total_exercations being the catalog's length.
MyVerifyStart ==
    /\ bpc = "start"
    /\ total' = N
    /\ bpc' = IF N = 0 THEN "join" ELSE "spawn"
    /\ UNCHANGED <<N, done, watchVars, lookupVars, seqVars, runOk, spawnIdx, joinIdx, upc, rights,
                   list, succ, fail, report>>

\* Lines 295-348: one iteration of the spawning loop: the task of the next
\* exercise is spawned and starts running.
Spawn ==
    /\ bpc = "spawn"
    /\ upc' = [upc EXCEPT ![spawnIdx] = "running"]
    /\ spawnIdx' = spawnIdx + 1
    /\ bpc' = IF spawnIdx = N THEN "join" ELSE "spawn"
    /\ UNCHANGED <<N, done, watchVars, lookupVars, seqVars, runOk, joinIdx, rights, list, succ,
                   fail, total, report>>

\* UnitRun where an Err of run takes every task down
UnitRunAborts(e) ==
    /\ e \in Catalog
    /\ upc[e] = "running"
    /\ upc' = IF runOk[e] THEN [upc EXCEPT ![e] = "ok_rights"]
              ELSE [x \in Catalog |-> "aborted"]
    /\ UNCHANGED <<N, done, watchVars, lookupVars, seqVars, runOk, bpc, spawnIdx, joinIdx, rights,
                   list, succ, fail, total, report>>

\* Lines 301-302, 324: run returns in the task of exercise e.
UnitRun(e) ==
    /\ e \in Catalog
    /\ upc[e] = "running"
    /\ upc' = [upc EXCEPT ![e] = IF runOk[e] THEN "ok_rights" ELSE "err_push"]
    /\ UNCHANGED <<N, done, watchVars, lookupVars, seqVars, runOk, bpc, spawnIdx, joinIdx, rights,
                   list, succ, fail, total, report>>

\* Line 303: the Ok arm locks `rights` and adds one.
UnitRights(e) ==
    /\ e \in Catalog
    /\ upc[e] = "ok_rights"
    /\ rights' = rights + 1
    /\ upc' = [upc EXCEPT ![e] = "ok_push"]
    /\ UNCHANGED <<N, done, watchVars, lookupVars, seqVars, runOk, bpc, spawnIdx, joinIdx, list,
                   succ, fail, total, report>>

\* UnitPush whose Err arm pushes result: true
UnitPushAlwaysTrue(e) ==
    /\ e \in Catalog
    /\ upc[e] \in {"ok_push", "err_push"}
    /\ list' = Append(list, ExerciseResult(e, TRUE))
    /\ upc' = [upc EXCEPT ![e] = IF upc[e] = "ok_push" THEN "ok_count"
                                  ELSE "err_count"]
    /\ UNCHANGED <<N, done, watchVars, lookupVars, seqVars, runOk, bpc, spawnIdx, joinIdx, rights,
                   succ, fail, total, report>>

\* Lines 312-317 and 333-338: the check list is locked and the record of
\* the exercise is pushed; the lock is released at the end of the statement.
UnitPush(e) ==
    /\ e \in Catalog
    /\ upc[e] \in {"ok_push", "err_push"}
    /\ list' = Append(list, ExerciseResult(e, upc[e] = "ok_push"))
    /\ upc' = [upc EXCEPT ![e] = IF upc[e] = "ok_push" THEN "ok_count"
                                  ELSE "err_count"]
    /\ UNCHANGED <<N, done, watchVars, lookupVars, seqVars, runOk, bpc, spawnIdx, joinIdx, rights,
                   succ, fail, total, report>>

\* UnitCount whose Err arm leaves total_failures as it is
UnitCountDropsFailure(e) ==
    /\ e \in Catalog
    /\ upc[e] \in {"ok_count", "err_count"}
    /\ succ' = IF upc[e] = "ok_count" THEN succ + 1 ELSE succ
    /\ fail' = fail
    /\ upc' = [upc EXCEPT ![e] = "done"]
    /\ UNCHANGED <<N, done, watchVars, lookupVars, seqVars, runOk, bpc, spawnIdx, joinIdx, rights,
                   list, total, report>>

\* Lines 318-322 and 339-343: the check list is locked again and
\* total_succeeds (Ok arm) or total_failures (Err arm) grows by one; the
\* task ends.
UnitCount(e) ==
    /\ e \in Catalog
    /\ upc[e] \in {"ok_count", "err_count"}
    /\ succ' = IF upc[e] = "ok_count" THEN succ + 1 ELSE succ
    /\ fail' = IF upc[e] = "err_count" THEN fail + 1 ELSE fail
    /\ upc' = [upc EXCEPT ![e] = "done"]
    /\ UNCHANGED <<N, done, watchVars, lookupVars, seqVars, runOk, bpc, spawnIdx, joinIdx, rights,
                   list, total, report>>

\* Join that does not wait for the task to end
JoinNoWait ==
    /\ bpc = "join"
    /\ joinIdx <= N
    /\ joinIdx' = joinIdx + 1
    /\ UNCHANGED <<N, done, watchVars, lookupVars, seqVars, runOk, bpc, spawnIdx, upc, rights,
                   list, succ, fail, total, report>>

\* Lines 349-351: task.await of the next task returns once that task has
\* ended.
Join ==
    /\ bpc = "join"
    /\ joinIdx <= N
    /\ upc[joinIdx] = "done"
    /\ joinIdx' = joinIdx + 1
    /\ UNCHANGED <<N, done, watchVars, lookupVars, seqVars, runOk, bpc, spawnIdx, upc, rights,
                   list, succ, fail, total, report>>

\* Lines 352-354: every task has been awaited; the check list is
\* serialized and written.
WriteReport ==
    /\ bpc = "join"
    /\ joinIdx > N
    /\ report' = <<[exercises |-> list, attempted |-> total,
                    succeeded |-> succ, failed |-> fail]>>
    /\ bpc' = "done"
    /\ UNCHANGED <<N, done, watchVars, lookupVars, seqVars, runOk, spawnIdx, joinIdx, upc, rights,
                   list, succ, fail, total>>

\* The steps of the task of exercise e
Unit(e) == UnitRun(e) \/ UnitRights(e) \/ UnitPush(e) \/ UnitCount(e)

\* The steps of the coordinator
Coordinator == MyVerifyStart \/ Spawn \/ Join \/ WriteReport

BatchNext ==
    \/ MyVerifyStart
    \/ Spawn
    \/ Join
    \/ WriteReport
    \/ \E e \in Catalog : UnitRun(e)
    \/ \E e \in Catalog : UnitRights(e)
    \/ \E e \in Catalog : UnitPush(e)
    \/ \E e \in Catalog : UnitCount(e)

BatchSpec == BatchInit /\ [][BatchNext]_vars

\* The runtime runs every spawned task and the coordinator: each keeps
\* taking its steps while it has one to take.
BatchLiveSpec ==
    /\ BatchSpec
    /\ WF_vars(Coordinator)
    /\ \A e \in 1..MaxN : WF_vars(Unit(e))

\* ------------------------------------------------- targeted commands

\* Exit status of std::process::exit(1) (lines 446, 454, 248, 254)
ExitFailure == 1

FirstNotDoneAny ==
    LET S == {e \in Catalog : ~done[e]}
    IN  IF S = {} THEN 0 ELSE CHOOSE x \in S : \A y \in S : x >= y

\* Lines 440-442: exercises.iter().find(|e| !e.looks_done()); 0 when None
FirstNotDone ==
    LET S == {e \in Catalog : ~done[e]}
    IN  IF S = {} THEN 0 ELSE Min(S)

LastNamed(n) ==
    LET S == {e \in Catalog : names[e] = n}
    IN  IF S = {} THEN 0 ELSE CHOOSE x \in S : \A y \in S : x >= y

\* Lines 449-451: exercises.iter().find(|e| e.name == name); 0 when None
FirstNamed(n) ==
    LET S == {e \in Catalog : names[e] = n}
    IN  IF S = {} THEN 0 ELSE Min(S)

\* `rustlings run|reset|hint <name>`: main has read the catalog.
LookupInit ==
    /\ N \in 0..MaxN
    /\ done \in [Catalog -> BOOLEAN]
    /\ names \in [Catalog -> Names]
    /\ lkCmd \in {"run", "reset", "hint"}
    /\ lkArg \in {NextToken, NoSuchName} \cup Names
    /\ lpc = "start" /\ lkFound = 0 /\ lkActed = 0 /\ lkOut = "none"
    /\ lkExit = -1
    /\ WatchIdle /\ pc = "idle"
    /\ BatchIdle
    /\ SeqIdle

\* Lines 438-457 (called at 246, 252, 258): find_exercise returns the
\* exercise found, or prints its message and exits with status 1.
FindExercise ==
    /\ lpc = "start"
    /\ LET e == IF lkArg = NextToken THEN FirstNotDone
                ELSE FirstNamed(lkArg)
       IN  IF e # 0
           THEN /\ lkFound' = e
                /\ lpc' = "found"
                /\ UNCHANGED <<lkOut, lkExit>>
           ELSE /\ lkOut' = IF lkArg = NextToken THEN "congratulations"
                            ELSE "no_exercise_found"
                /\ lkExit' = ExitFailure
                /\ lpc' = "exited"
                /\ lkFound' = lkFound
    /\ UNCHANGED <<N, done, watchVars, batchVars, seqVars, names, lkCmd, lkArg, lkActed>>

\* Lines 248 and 254: run or reset is called on the exercise found; an Err
\* exits with status 1.
RunOrReset ==
    /\ lpc = "found"
    /\ lkCmd \in {"run", "reset"}
    /\ lkActed' = lkFound
    /\ \E ok \in BOOLEAN : lkExit' = IF ok THEN 0 ELSE ExitFailure
    /\ lpc' = "exited"
    /\ UNCHANGED <<N, done, watchVars, batchVars, seqVars, names, lkCmd, lkArg, lkFound,
                   lkOut>>

\* Line 260: the hint of the exercise found is printed.
ShowHint ==
    /\ lpc = "found"
    /\ lkCmd = "hint"
    /\ lkActed' = lkFound
    /\ lkOut' = "hint"
    /\ lkExit' = 0
    /\ lpc' = "exited"
    /\ UNCHANGED <<N, done, watchVars, batchVars, seqVars, names, lkCmd, lkArg, lkFound>>

LookupNext ==
    \/ FindExercise
    \/ RunOrReset
    \/ ShowHint

LookupSpec == LookupInit /\ [][LookupNext]_vars

\* ------------------------------------------------------- verify command

\* `rustlings verify`: main has read the catalog; whether an exercise looks
\* done is not read by this command.
SeqInit ==
    /\ N \in 0..MaxSeq
    /\ done \in [Catalog -> BOOLEAN]
    /\ WatchIdle /\ pc = "idle"
    /\ BatchIdle
    /\ LookupIdle
    /\ vpc = "loop" /\ vIdx = 1 /\ vLog = <<>> /\ vExit = -1

\* Lines 265-266: the for loop takes the next exercise and calls verify.
SeqCall ==
    /\ vpc = "loop"
    /\ vIdx <= N
    /\ vpc' = "verifying"
    /\ UNCHANGED <<N, done, watchVars, batchVars, lookupVars, vIdx, vLog, vExit>>

\* SeqReturn whose Err arm does not exit
SeqReturnGoesOn ==
    /\ vpc = "verifying"
    /\ \E ok \in BOOLEAN : vLog' = Append(vLog, <<vIdx, ok>>)
    /\ vIdx' = vIdx + 1
    /\ vpc' = "loop"
    /\ UNCHANGED <<N, done, watchVars, batchVars, lookupVars, vExit>>

\* Lines 266-269: verify returns. Ok: the loop goes on; Err: the process
\* exits with status 1.
SeqReturn ==
    /\ vpc = "verifying"
    /\ \E ok \in BOOLEAN :
         /\ vLog' = Append(vLog, <<vIdx, ok>>)
         /\ IF ok
            THEN /\ vIdx' = vIdx + 1
                 /\ vpc' = "loop"
                 /\ vExit' = vExit
            ELSE /\ vExit' = ExitFailure
                 /\ vpc' = "exited"
                 /\ vIdx' = vIdx
    /\ UNCHANGED <<N, done, watchVars, batchVars, lookupVars>>

\* Lines 270-271: the loop is over; main returns and the process ends
\* with status 0.
SeqEnd ==
    /\ vpc = "loop"
    /\ vIdx > N
    /\ vpc' = "exited"
    /\ vExit' = 0
    /\ UNCHANGED <<N, done, watchVars, batchVars, lookupVars, vIdx, vLog>>

SeqNext ==
    \/ SeqCall
    \/ SeqReturn
    \/ SeqEnd

SeqSpec == SeqInit /\ [][SeqNext]_vars

\* ------------------------------------------------------- properties

RECURSIVE OkPrefix(_)
\* Length of the longest prefix of a scan log whose verifications succeeded
OkPrefix(log) ==
    IF log = <<>> \/ ~Head(log)[2] THEN 0 ELSE 1 + OkPrefix(Tail(log))

\* The initial scan is over (and watch did not fail before it).
ScanOver == pc \notin {"init", "scan"} /\ result # "Err"

\* C1: the initial scan verifies the exercises one at a time in catalog
\* order, verifies nothing after the first failed verification, and when
\* it ends (at a failure, or with the whole catalog verified) num_done is
\* the length of the longest prefix of the catalog whose verifications
\* succeeded.
C1_ScanFailFast ==
    /\ \A i \in 1..Len(scanLog) : scanLog[i][1] = i
    /\ \A i \in 1..(Len(scanLog) - 1) : scanLog[i][2]
    /\ Len(scanLog) <= N
    /\ ScanOver =>
         /\ numDone = OkPrefix(scanLog)
         /\ \/ Len(scanLog) = N /\ numDone = N
            \/ Len(scanLog) > 0 /\ ~scanLog[Len(scanLog)][2]

\* C1 witness: a scan of two exercises that stopped at the second one.
C1_Witness ==
    /\ pc = "scan_end" /\ N = 2
    /\ scanLog = <<(<<1, TRUE>>), (<<2, FALSE>>)>>
    /\ numDone = 1

\* Position of the filter part of pending_exercises, read off the pass's
\* visits: the last exercise visited after the one found by path.
LastFiltered(v, E) ==
    IF v = <<>> \/ (E # 0 /\ Len(v) = 1) THEN 0 ELSE v[Len(v)]

Failing == Cardinality({e \in Catalog : ~runOk[e]})

\* C3: the written report counts N attempted, K failed and N - K
\* succeeded, and lists N records: each exercise once, with its own
\* outcome, whatever the order in which the tasks ran.
C3_ReportTotals ==
    bpc = "done" =>
        LET r == report[1] IN
        /\ r.succeeded + r.failed = N
        /\ r.failed = Failing
        /\ r.attempted = N
        /\ Len(r.exercises) = N
        /\ \A e \in Catalog :
             /\ Cardinality({i \in 1..Len(r.exercises) :
                                r.exercises[i].name = e}) = 1
             /\ \E i \in 1..Len(r.exercises) :
                  r.exercises[i] = ExerciseResult(e, runOk[e])

\* C3 witness: a report of two exercises, one failing, whose records are
\* not in catalog order.
C3_Witness ==
    /\ bpc = "done" /\ N = 2 /\ Failing = 1
    /\ report[1].exercises[1].name = 2

\* C4: the report is written only when every task has ended, having
\* pushed its record and updated its counter.
C4_ReportAfterAllTasks ==
    report # <<>> =>
        /\ \A e \in Catalog : upc[e] = "done"
        /\ report[1].exercises = list
        /\ Len(list) = N
        /\ succ + fail = N

\* C4 witness: the report of a catalog of MaxN exercises has been written.
C4_Witness == report # <<>> /\ N = MaxN /\ joinIdx = N + 1

\* Exercise e is in the written report, with its own outcome.
Reported(e) ==
    /\ report # <<>>
    /\ \E i \in 1..Len(report[1].exercises) :
         report[1].exercises[i] = ExerciseResult(e, runOk[e])

\* C5: under fair scheduling every task ends and the report is written
\* with every exercise in it, whichever tasks fail.
C5_BatchCompletes ==
    <>(/\ bpc = "done"
       /\ \A e \in Catalog : upc[e] = "done" /\ Reported(e))

\* C5 witness: exercise 1 failed, and its sibling, exercise 2, ended and is
\* reported as passed.
C5_Witness ==
    /\ bpc = "done" /\ N = 2
    /\ ~runOk[1] /\ runOk[2]
    /\ Reported(1) /\ Reported(2)
    /\ upc[2] = "done"

\* C6 as claimed: after a pass that ran its whole subset without a
\* failure the hint is None and `hint` prints nothing; after a pass that
\* failed the hint is that of the failed exercise.
C6_HintClearedAfterPass ==
    pc = "check_quit" =>
        /\ iterEnd = "passed" => hint = 0 /\ HintPrinted = 0
        /\ iterEnd = "failed" => hint = HintOf(visited[Len(visited)])

\* C7 as claimed: when a pass ends with every exercise done (and no quit
\* is requested), the loop returns Finished.
C7_FinishedAfterPass ==
    [][(/\ pc = "check_quit" /\ pc' # pc
        /\ iterEnd \in {"passed", "failed"}
        /\ CountDone = N /\ ~quit)
          => result' = "Finished"]_vars

\* C8: watch returns Finished only with every exercise done (from the scan:
\* every exercise verified with success; from the loop: every exercise
\* looks done), returns Unfinished only with should_quit set, and main ends
\* with status 0 in these two cases only.
C8_ReturnStatus ==
    /\ result \in {"none", "Finished", "Unfinished", "Err"}
    /\ result # "none" <=> pc \in {"returned", "exited"}
    /\ result = "Finished" =>
         IF shellUp
         THEN \A e \in Catalog : done[e]
         ELSE /\ numDone = N /\ Len(scanLog) = N
              /\ \A i \in 1..N : scanLog[i] = <<i, TRUE>>
    /\ result = "Unfinished" => quit /\ shellUp
    /\ exitCode \in {-1, 0, 1}
    /\ exitCode = 0 => result \in {"Finished", "Unfinished"}

\* C8 witness: the loop returned Finished for a catalog of two exercises.
C8_Witness == result = "Finished" /\ shellUp /\ N = 2

\* C9 as claimed: once should_quit is set the loop starts no further wait
\* and no further pass, and a verification in flight ends normally.
C9_QuitStopsLoop ==
    [][quit =>
         /\ ~(pc = "check_quit" /\ pc' = "wait")
         /\ ~(pc = "wait" /\ pc' = "pass")
         /\ (pc = "verify" /\ pc' # pc) => pc' \in {"pass", "check_quit"}
      ]_vars

\* C10 as claimed: a failure of the watcher at initialisation, an error
\* event, and a disconnected channel each make watch return an error, and
\* the program exits with a non-zero status.
C10_WatchFailureFatal ==
    [][/\ (pc = "init" /\ pc' = "returned") => result' = "Err"
       /\ (pc = "returned" /\ result = "Err" /\ pc' # pc) => exitCode' = 1
       /\ (/\ pc = "wait" /\ pc' # pc
           /\ \/ queue = <<>> /\ disconnected
              \/ queue # <<>> /\ Head(queue).kind = "Error")
            => pc' = "returned" /\ result' = "Err"
      ]_vars

\* C11: `next` resolves to exercise k + 1 when exercises 1..k look done and
\* k + 1 does not, whatever the later ones look like; when every exercise
\* looks done the congratulation is printed, the program exits and no
\* exercise is run, reset or shown.
C11_NextResolution ==
    (lkArg = NextToken /\ lpc \in {"found", "exited"}) =>
        /\ \A k \in 0..(N - 1) :
             ((\A i \in 1..k : done[i]) /\ ~done[k + 1]) => lkFound = k + 1
        /\ (\A e \in Catalog : done[e]) =>
             /\ lkFound = 0 /\ lkActed = 0
             /\ lkOut = "congratulations" /\ lpc = "exited"
        /\ lkActed \in {0, lkFound}

\* C11 witness: exercise 1 looks done, exercise 2 does not; `next` has
\* resolved to exercise 2 and the command has acted on it.
C11_Witness ==
    /\ lkArg = NextToken /\ lpc = "exited"
    /\ N = 2 /\ done[1] /\ ~done[2]
    /\ lkFound = 2 /\ lkActed = 2

\* C12 as claimed: `next` with nothing pending ends the program with a
\* status other than the failure status of an unknown name.
C12_ExhaustedIsNotFailure ==
    (lpc = "exited" /\ lkOut = "congratulations") => lkExit # ExitFailure

\* C13: a name other than `next` resolves to the first exercise of the
\* catalog with that name; when there is none the miss is printed, the
\* program exits with a non-zero status and no exercise is run, reset or
\* shown.
C13_NameResolution ==
    (lkArg # NextToken /\ lpc \in {"found", "exited"}) =>
        IF \E e \in Catalog : names[e] = lkArg
        THEN /\ lkFound \in Catalog
             /\ names[lkFound] = lkArg
             /\ \A j \in 1..(lkFound - 1) : names[j] # lkArg
             /\ lkActed \in {0, lkFound}
        ELSE /\ lkFound = 0 /\ lkActed = 0
             /\ lkOut = "no_exercise_found"
             /\ lpc = "exited" /\ lkExit # 0 /\ lkExit # -1

\* C13 witness: a command naming no exercise of a catalog of two has ended.
C13_Witness ==
    /\ lpc = "exited" /\ N = 2
    /\ lkArg # NextToken /\ \A e \in Catalog : names[e] # lkArg
    /\ lkOut = "no_exercise_found"

\* C14 as claimed: in every reachable state the number of records equals
\* succeeded + failed.
C14_RecordAndCountAtomic == Len(list) = succ + fail

\* Tasks that have pushed their record and not yet counted it
Uncounted == {e \in Catalog : upc[e] \in {"ok_count", "err_count"}}

\* C14, amended: the push and the count are two lock-guarded steps, the
\* push first: the number of records equals succeeded + failed plus the
\* number of tasks between the two steps, each counter being that of its
\* own arm; they are equal when no task is between the two steps.
C14_RecordThenCount ==
    /\ Len(list) = succ + fail + Cardinality(Uncounted)
    /\ succ = Cardinality({e \in Catalog : upc[e] = "done" /\ runOk[e]})
    /\ fail = Cardinality({e \in Catalog : upc[e] = "done" /\ ~runOk[e]})
    /\ Uncounted = {} => Len(list) = succ + fail

\* C14 witness: two tasks have pushed their records and neither has
\* counted yet.
C14_Witness ==
    /\ N = 2 /\ Uncounted = {1, 2}
    /\ Len(list) = 2 /\ succ + fail = 0

\* C15: a pass stops at the first failed verification: when verify
\* returns the pass either goes on or ends as failed with the hint of the
\* exercise just verified; after that no exercise is verified in the pass
\* and the hint stays; and the loop then goes back to waiting for an event
\* (it returns only because should_quit is set).
C15_PassFailFast ==
    [][/\ (pc = "verify" /\ pc' # pc) =>
            \/ pc' = "pass" /\ iterEnd' = "none" /\ hint' = hint
            \/ /\ pc' = "check_quit" /\ iterEnd' = "failed"
               /\ cur = visited[Len(visited)]
               /\ hint' = HintOf(cur)
       /\ iterEnd' = "failed" =>
            /\ pc' = "check_quit"
            /\ visited' # <<>>
            /\ hint' = HintOf(visited'[Len(visited')])
            /\ iterEnd = "failed" => visited' = visited
       /\ (pc = "check_quit" /\ iterEnd = "failed" /\ pc' # pc) =>
            IF quit THEN pc' = "returned" /\ result' = "Unfinished"
            ELSE pc' = "wait" /\ result' = "none"
      ]_vars

\* C15 witness: the pass for a write of exercise 2 failed on exercise 2;
\* exercise 1, not done, was not verified, and the hint is that of 2.
C15_Witness ==
    /\ pc = "check_quit" /\ iterEnd = "failed"
    /\ evPath = ExPath(2) /\ visited = <<2>>
    /\ ~done[1] /\ hint = HintOf(2)

\* C16: receiving an event that is not a create, write or chmod event of
\* an existing .rs file is a no-op: the iteration goes straight to the quit
\* check as "ignored" (nothing is printed, no error is returned), no
\* exercise is verified, the hint stays, and the loop goes back to waiting
\* unless should_quit is set.
C16_FilteredNoOp ==
    [][/\ (pc = "wait" /\ queue # <<>> /\ pc' # pc) =>
            LET ev == Head(queue)
                acted == /\ ev.kind \in {"Create", "Write", "Chmod"}
                         /\ HasRsExtension(ev.path)
                         /\ evExists'
            IN  /\ queue' = Tail(queue)
                /\ ~acted =>
                     /\ pc' = "check_quit" /\ iterEnd' = "ignored"
                     /\ hint' = hint /\ result' = "none"
                     /\ cur' = 0 /\ visited' = <<>>
       /\ iterEnd = "ignored" =>
            /\ pc = "check_quit" /\ cur = 0 /\ visited = <<>>
            /\ hint' = hint
            /\ pc' # pc =>
                 IF quit THEN pc' = "returned" /\ result' = "Unfinished"
                 ELSE pc' = "wait" /\ result' = "none"
      ]_vars

\* C16 witness: an event of a qualifying kind and extension whose file was
\* gone when it was handled has been ignored, with a hint in place and
\* should_quit clear.
C16_Witness ==
    /\ pc = "check_quit" /\ iterEnd = "ignored"
    /\ ~evExists /\ hint # 0 /\ ~quit

\* C17: the channel is a queue that only the watcher appends to and only
\* the waiting loop takes the head of, so events are handled in arrival
\* order and none is dropped; each qualifying event received starts a
\* fresh pass for its own path (or the loop returns Finished), a pass
\* keeps the path it was started for, and while events are queued the loop
\* always gets back to receiving (or has returned).
C17_EachEventItsOwnPass ==
    /\ [][/\ queue' # queue =>
               \/ /\ \E ev \in Events : queue' = Append(queue, ev)
                  /\ pc' = pc
               \/ /\ pc = "wait" /\ pc' # pc
                  /\ queue # <<>> /\ queue' = Tail(queue)
          /\ (pc = "wait" /\ queue # <<>> /\ pc' # pc) =>
               /\ queue' = Tail(queue)
               /\ (Examined(Head(queue)) /\ evExists') =>
                    \/ pc' = "returned" /\ result' = "Finished"
                    \/ /\ pc' = "pass" /\ evPath' = Head(queue).path
                       /\ visited' = <<>> /\ ~itFound' /\ itPos' = 0
          /\ pc \in {"pass", "verify"} => evPath' = evPath
          /\ (pc' = "pass" /\ pc # "pass") => pc \in {"wait", "verify"}
         ]_vars
    /\ (queue # <<>>) ~> (pc \in {"wait", "returned", "exited"})

\* C17 witness: two events for different files wait in the channel while a
\* verification of a pass started for a third event is in flight.
C17_Witness ==
    /\ pc = "verify" /\ evPath = ExPath(1)
    /\ Len(queue) = 2
    /\ queue[1].path = OtherRs /\ queue[2].path = ExPath(1)

\* What a pass selects next, as a function of the done-predicate d, the
\* changed path p and the exercises v the pass has visited so far (0: none).
PassSelects(d, p, v) ==
    LET E == FindByPath(p)
        from == LastFiltered(v, E)
        S == {e \in Catalog : e > from /\ ~d[e] /\ e # E}
    IN  IF v = <<>> /\ E # 0 THEN E
        ELSE IF S = {} THEN 0 ELSE Min(S)

\* C18: what the loop does with a qualifying event is determined by the
\* exercises' done-predicate as it is now and by the event's path: it
\* returns Finished exactly when every exercise is done now, and every
\* selection of a pass is PassSelects of the current predicate, the path
\* and the pass's own visits; num_done and the outcomes of the initial
\* scan take no part, so histories that agree on the files and the
\* event agree on the selection.
C18_PassReadsCurrentState ==
    [][/\ (/\ pc = "wait" /\ queue # <<>> /\ pc' # pc
           /\ Examined(Head(queue)) /\ evExists') =>
            /\ result' = "Finished" <=> \A e \in Catalog : done[e]
            /\ result' # "Finished" => pc' = "pass" /\ visited' = <<>>
       /\ (pc = "pass" /\ pc' # pc) =>
            LET x == PassSelects(done, evPath, visited)
            IN  IF x = 0
                THEN pc' = "check_quit" /\ iterEnd' = "passed"
                ELSE pc' = "verify" /\ cur' = x /\ visited' = Append(visited, x)
      ]_vars

\* C18 witness: a pass for a write of exercise 2 verifies exercise 1, which
\* the initial scan had verified with success.
C18_Witness ==
    /\ pc = "verify" /\ cur = 1
    /\ evPath = ExPath(2) /\ visited = <<2, 1>>
    /\ scanLog # <<>> /\ scanLog[1] = <<1, TRUE>>

\* C19: should_quit only ever goes from false to true, and the step that
\* sets it is the shell's (the thread running watch does not move and
\* nothing else changes); the hint changes only in a step of the thread
\* running watch, at a failed verification; and the shell, once spawned,
\* stays up whatever it reads.
C19_ShellWritesQuitOnly ==
    [][/\ quit => quit'
       /\ quit' # quit =>
            /\ shellUp /\ quit'
            /\ UNCHANGED <<N, done, pc, result, exitCode, numDone, scanIdx,
                           scanLog, hint, shellUp, queue, disconnected,
                           evPath, evExists, itFound, itPos, cur, visited,
                           iterEnd, lock, spc>>
       /\ hint' # hint =>
            /\ pc \in {"scan", "verify"} /\ pc' # pc
            /\ quit' = quit
       /\ shellUp => shellUp'
      ]_vars

\* C19 witness: quit was typed while a verification is in flight, and the
\* hint of an earlier failure is still in place.
C19_Witness ==
    /\ quit /\ shellUp /\ pc = "verify" /\ hint # 0

\* The lock is held by the thread running watch only between its lock()
\* and the break of the Err arm, and by the shell only while it prints.
LockHeldBriefly ==
    /\ lock \in {"free", "sched", "shell"}
    /\ lock = "sched" <=> pc = "err_set"
    /\ lock = "shell" <=> spc = "holding"
    /\ (pc = "err_lock" /\ lock # "free") => spc = "holding"
    /\ (spc = "want" /\ lock # "free") => pc = "err_set"

\* C20 as claimed: the lock is held only briefly, and a shell that wants
\* the lock always gets it.
C20_HintAlwaysAcquires ==
    /\ []LockHeldBriefly
    /\ (spc = "want") ~> (spc = "holding")

\* C20: the thread running watch holds the lock neither during a
\* verification nor while it waits for an event, the shell does not hold
\* it while it reads input, whoever waits for the lock waits for a holder
\* that is about to release it, and a shell that wants the lock gets it
\* unless the process ends first.
C20_HintAcquiresUnlessExited ==
    /\ []LockHeldBriefly
    /\ (spc = "want") ~> (spc = "holding" \/ pc = "exited")

\* C20 witness: the shell has read `hint` and waits in lock() while the
\* thread running watch holds the guard in the Err arm.
C20_Witness ==
    /\ spc = "want" /\ lock = "sched" /\ pc = "err_set"

\* C21: the verify command verifies the exercises one at a time in catalog
\* order, whether they look done or not; a failed verification is the last
\* one and ends the process with status 1; and the process ends with
\* status 0 exactly when the whole catalog was verified with success.
C21_SeqVerifyFailFast ==
    /\ Len(vLog) <= N
    /\ \A i \in 1..Len(vLog) : vLog[i][1] = i
    /\ \A i \in 1..(Len(vLog) - 1) : vLog[i][2]
    /\ vIdx = Len(vLog) + (IF vExit = ExitFailure THEN 0 ELSE 1)
    /\ vExit \in {-1, 0, ExitFailure}
    /\ vExit # -1 <=> vpc = "exited"
    /\ vExit = ExitFailure <=> (vLog # <<>> /\ ~vLog[Len(vLog)][2])
    /\ vExit = 0 <=>
         /\ vpc = "exited"
         /\ Len(vLog) = N
         /\ \A i \in 1..N : vLog[i] = <<i, TRUE>>

\* C21 witness: of three exercises the first passed and the second failed;
\* the third, which does not look done, was not verified.
C21_Witness ==
    /\ vpc = "exited" /\ vExit = ExitFailure /\ N = 3
    /\ vLog = <<(<<1, TRUE>>), (<<2, FALSE>>)>>
    /\ done[1] /\ ~done[3]

\* C22: while the shell is up the hint cell holds the hint of an exercise
\* of the catalog, so `hint` prints one; the shell is started right after
\* a scan that ended at a failed verification, with that exercise's hint
\* in the cell; and afterwards the cell changes only when a verification
\* fails, to the hint of the exercise that failed.
C22_HintPresentWhileShellUp ==
    /\ [](shellUp =>
            /\ hint \in {HintOf(e) : e \in Catalog}
            /\ hint # 0 /\ HintPrinted = hint)
    /\ [][/\ (shellUp' /\ ~shellUp) =>
               /\ scanLog # <<>>
               /\ ~scanLog[Len(scanLog)][2]
               /\ hint' = HintOf(scanLog[Len(scanLog)][1])
          /\ (shellUp /\ hint' # hint) =>
               pc = "verify" /\ iterEnd' = "failed"
          /\ (iterEnd' = "failed" /\ iterEnd # "failed") =>
               pc = "verify" /\ hint' = HintOf(cur)
         ]_vars

\* C22 witness: a pass has run its whole subset without a failure and the
\* hint of the earlier failure is still in the cell.
C22_Witness ==
    /\ shellUp /\ pc = "check_quit" /\ iterEnd = "passed"
    /\ visited # <<>> /\ hint # 0

\* The exercise whose file the event being handled is about (0: none).
Changed ==
    LET M == {e \in Catalog : EndsWith(evPath, e)}
    IN  IF M = {} THEN 0 ELSE Min(M)

\* C23: an event for the file of an exercise E that looks done, received
\* while another exercise does not, starts a pass; the pass for an event of
\* E's file verifies E first whether E looks done or not, and when that
\* verification fails the pass ends having verified E only. The pass for
\* an event that matches no exercise visits, each time, the first exercise
\* after the previous one that does not look done, and ends without a
\* failure only when there is none left.
C23_DoneMatchStillFirst ==
    [][/\ (/\ pc = "wait" /\ queue # <<>> /\ pc' # pc
           /\ Examined(Head(queue)) /\ evExists'
           /\ \E e \in Catalog :
                /\ EndsWith(Head(queue).path, e) /\ done[e]
                /\ \E o \in Catalog : ~done[o]) =>
            pc' = "pass" /\ evPath' = Head(queue).path /\ visited' = <<>>
       /\ (pc = "pass" /\ pc' # pc /\ visited = <<>> /\ Changed # 0) =>
            pc' = "verify" /\ cur' = Changed /\ visited' = <<Changed>>
       /\ (/\ pc = "verify" /\ pc' # pc /\ cur = Changed
           /\ visited = <<Changed>> /\ iterEnd' = "failed") =>
            pc' = "check_quit" /\ visited' = <<Changed>>
       /\ (pc = "pass" /\ pc' # pc /\ Changed = 0) =>
            LET from == IF visited = <<>> THEN 0 ELSE visited[Len(visited)]
                S == {e \in Catalog : e > from /\ ~done[e]}
            IN  IF S = {}
                THEN pc' = "check_quit" /\ iterEnd' = "passed"
                ELSE /\ pc' = "verify" /\ cur' = Min(S)
                     /\ visited' = Append(visited, Min(S))
      ]_vars

\* C23 witness: exercise 2 looks done and exercise 1 does not; the pass for
\* a write of exercise 2's file verified exercise 2, which failed, and
\* ended there.
C23_Witness ==
    /\ pc = "check_quit" /\ iterEnd = "failed"
    /\ evPath = ExPath(2) /\ visited = <<2>>
    /\ done[2] /\ ~done[1] /\ hint = HintOf(2)
====
